---------------------------- MODULE Spec2Model ----------------------------
(***************************************************************************)
(* A model of table_properties/db.py: the catalog queries of               *)
(* get_current_config, the query executor exec_query and the reshaping     *)
(* functions (convert_value, get_class_name, key_mapper,                   *)
(* get_replication_settings, get_subconfig_settings, get_table_configs,    *)
(* get_keyspace_configs).                                                  *)
(*                                                                         *)
(* Python values are tagged records.  A Python str whose characters the    *)
(* code inspects (split, lower, startswith, int(), float()) is a sequence  *)
(* of one-character strings; dictionary keys, which the code only compares *)
(* for equality, are TLA+ strings.  A dict and an OrderedMapSerializedKey  *)
(* are sequences of <<key, value>> pairs in iteration order.               *)
(***************************************************************************)
EXTENDS Integers, Sequences, FiniteSets, TLC

VARIABLES
    arg,            \* harness of the reshaping functions: the input drawn
    res,            \* ... and the value returned (Pending before the call)
    fn,             \* ... and the function that returned it ("" before)
    pc,             \* get_current_config: position in the call
    connection,     \* the connection dictionary the call works with
    stmt,           \* the statement exec_query is running
    clusters,       \* the Cluster objects created so far, in order
    sessions,       \* the Session objects obtained so far, in order
    log,            \* what logging.exception has recorded, in order
    pending,        \* the exception the driver raised (NoneV while none has)
    queries,        \* statements handed to session.execute, in order
    rows,           \* what exec_query returned last
    keyspaces,      \* the "keyspaces" list of the document under construction
    ksi,            \* index of the keyspace whose tables are being fetched
    outcome,        \* what get_current_config gave its caller
    username, password, is_ssl_required, auth_provider, ssl_context,
    host, port,     \* ConnectionParams
    assigns         \* ... and the number of assignments made to it

vars == <<arg, res, fn, pc, connection, stmt, clusters, sessions, log, pending,
          queries, rows, keyspaces, ksi, outcome, username, password,
          is_ssl_required, auth_provider, ssl_context, host, port, assigns>>

fnVars == <<arg, res, fn>>
runVars == <<pc, connection, stmt, clusters, sessions, log, pending, queries, rows,
             keyspaces, ksi, outcome>>
cpVars == <<username, password, is_ssl_required, auth_provider, ssl_context,
            host, port, assigns>>

(***************************************************************************)
(* Bounds of the model.                                                    *)
(***************************************************************************)
MaxStrLen == 3      \* longest string handed to convert_value
MaxEntries == 2     \* most entries of a map handed to a normalizer
MaxCells == 3       \* most columns, over all rows, of a table result set
MaxKs == 2          \* most rows of the keyspace catalog
MaxAssign == 7      \* most assignments to a ConnectionParams instance

(***************************************************************************)
(* Python values.                                                          *)
(***************************************************************************)
Str(s) == [t |-> "str", s |-> s]
\* a str the code only compares or copies (a key, a host, a credential)
Text(k) == [t |-> "str", k |-> k]
IntV(i) == [t |-> "int", i |-> i]
\* a finite float: n * 10^e, n not divisible by 10 unless it is 0
FloatV(n, e) == [t |-> "float", n |-> n, e |-> e]
FloatSpecial(k) == [t |-> "float", special |-> k]
ListV(items) == [t |-> "list", items |-> items]
SortedSetV(items) == [t |-> "SortedSet", items |-> items]
UuidV(hex) == [t |-> "UUID", hex |-> hex]
MapV(entries) == [t |-> "OrderedMapSerializedKey", entries |-> entries]
DictV(entries) == [t |-> "dict", entries |-> entries]
BoolV(b) == [t |-> "bool", b |-> b]
NoneV == [t |-> "None"]
Raise(kind) == [t |-> "exception", kind |-> kind]
Pending == [t |-> "pending"]

IsStr(v) == v.t = "str"
IsExc(v) == v.t = "exception"
IsMap(v) == v.t = "OrderedMapSerializedKey"

(***************************************************************************)
(* dict: d[k] = v keeps the position of a key already present.             *)
(***************************************************************************)
RECURSIVE DictHas(_, _)
DictHas(d, k) ==
    IF d = <<>> THEN FALSE
    ELSE IF Head(d)[1] = k THEN TRUE ELSE DictHas(Tail(d), k)

RECURSIVE DictGet(_, _)
DictGet(d, k) ==
    IF d = <<>> THEN NoneV
    ELSE IF Head(d)[1] = k THEN Head(d)[2] ELSE DictGet(Tail(d), k)

DictSet(d, k, v) ==
    IF DictHas(d, k)
    THEN [i \in 1..Len(d) |-> IF d[i][1] = k THEN <<k, v>> ELSE d[i]]
    ELSE Append(d, <<k, v>>)

DictKeys(d) == [i \in 1..Len(d) |-> d[i][1]]

\* dict.get(k, default)
DictGetOr(d, k, default) == IF DictHas(d, k) THEN DictGet(d, k) ELSE default

(***************************************************************************)
(* Connection defaults.                                                    *)
(***************************************************************************)
DEFAULT_PORT == 9042

get_local_connection ==
    DictV(<<<<"hosts", ListV(<<Text("localhost")>>)>>,
            <<"port", IntV(DEFAULT_PORT)>>,
            <<"load_balancing_policy", [t |-> "RoundRobinPolicy"]>>>>)

(***************************************************************************)
(* Characters.                                                             *)
(***************************************************************************)
Digits == {"0", "1", "2", "3", "4", "5", "6", "7", "8", "9"}

DigitValue(c) ==
    CASE c = "0" -> 0 [] c = "1" -> 1 [] c = "2" -> 2 [] c = "3" -> 3
      [] c = "4" -> 4 [] c = "5" -> 5 [] c = "6" -> 6 [] c = "7" -> 7
      [] c = "8" -> 8 [] c = "9" -> 9

IsSpace(c) == c \in {" ", "\t", "\n"}

\* str.lower() on one character (the letters the model's names use)
LowerChar(c) ==
    CASE c = "A" -> "a" [] c = "E" -> "e" [] c = "M" -> "m" [] c = "S" -> "s"
      [] c = "T" -> "t" [] c = "Y" -> "y" [] c = "I" -> "i" [] c = "N" -> "n"
      [] c = "F" -> "f" [] OTHER -> c

lower(s) == [i \in 1..Len(s) |-> LowerChar(s[i])]

startswith(s, p) == Len(s) >= Len(p) /\ SubSeq(s, 1, Len(p)) = p

RECURSIVE strip(_)
strip(s) ==
    IF s = <<>> THEN s
    ELSE IF IsSpace(Head(s)) THEN strip(Tail(s))
    ELSE IF IsSpace(s[Len(s)]) THEN strip(SubSeq(s, 1, Len(s) - 1))
    ELSE s

(***************************************************************************)
(* int(str) and float(str) of the Python runtime, base 10.                 *)
(***************************************************************************)
\* an underscore is legal only between two digits
UnderscoresOk(s) ==
    \A i \in 1..Len(s) :
        s[i] = "_" => /\ i > 1 /\ i < Len(s)
                      /\ s[i - 1] \in Digits /\ s[i + 1] \in Digits

RECURSIVE DropUnderscores(_)
DropUnderscores(s) ==
    IF s = <<>> THEN s
    ELSE IF Head(s) = "_" THEN DropUnderscores(Tail(s))
    ELSE <<Head(s)>> \o DropUnderscores(Tail(s))

AllDigits(s) == \A i \in 1..Len(s) : s[i] \in Digits

RECURSIVE DigitsValue(_)
DigitsValue(s) ==
    IF s = <<>> THEN 0
    ELSE 10 * DigitsValue(SubSeq(s, 1, Len(s) - 1)) + DigitValue(s[Len(s)])

HasSign(s) == s # <<>> /\ Head(s) \in {"+", "-"}
Unsigned(s) == IF HasSign(s) THEN Tail(s) ELSE s
SignOf(s) == IF s # <<>> /\ Head(s) = "-" THEN -1 ELSE 1

\* the text int()/float() parse: stripped, underscores checked and removed
Cleaned(s) == DropUnderscores(strip(s))

IntParses(s) ==
    /\ UnderscoresOk(strip(s))
    /\ Unsigned(Cleaned(s)) # <<>>
    /\ AllDigits(Unsigned(Cleaned(s)))

Py_int(s) ==
    IF IntParses(s)
    THEN IntV(SignOf(Cleaned(s)) * DigitsValue(Unsigned(Cleaned(s))))
    ELSE Raise("ValueError")

\* position of the first character of s in set, Len(s) + 1 when there is none
RECURSIVE FirstIn(_, _, _)
FirstIn(s, set, i) ==
    IF i > Len(s) THEN i
    ELSE IF s[i] \in set THEN i ELSE FirstIn(s, set, i + 1)

Mantissa(s) == SubSeq(s, 1, FirstIn(s, {"e", "E"}, 1) - 1)
HasExponent(s) == FirstIn(s, {"e", "E"}, 1) <= Len(s)
Exponent(s) == SubSeq(s, FirstIn(s, {"e", "E"}, 1) + 1, Len(s))
IntPart(m) == SubSeq(m, 1, FirstIn(m, {"."}, 1) - 1)
FracPart(m) == SubSeq(m, FirstIn(m, {"."}, 1) + 1, Len(m))

DecimalParses(u) ==
    /\ AllDigits(IntPart(Mantissa(u)))
    /\ AllDigits(FracPart(Mantissa(u)))
    /\ Len(IntPart(Mantissa(u))) + Len(FracPart(Mantissa(u))) > 0
    /\ HasExponent(u) =>
         /\ Unsigned(Exponent(u)) # <<>>
         /\ AllDigits(Unsigned(Exponent(u)))

SpecialFloat(u) ==
    IF lower(u) = <<"n", "a", "n">> THEN "nan"
    ELSE IF lower(u) \in {<<"i", "n", "f">>,
                          <<"i", "n", "f", "i", "n", "i", "t", "y">>} THEN "inf"
    ELSE "no"

FloatParses(s) ==
    /\ UnderscoresOk(strip(s))
    /\ \/ SpecialFloat(Unsigned(Cleaned(s))) # "no"
       \/ DecimalParses(Unsigned(Cleaned(s)))

RECURSIVE Normalized(_, _)
Normalized(n, e) ==
    IF n = 0 THEN FloatV(0, 0)
    ELSE IF n % 10 = 0 THEN Normalized(n \div 10, e + 1)
    ELSE FloatV(n, e)

DecimalValue(sign, u) ==
    LET m == Mantissa(u)
        x == IF HasExponent(u)
             THEN SignOf(Exponent(u)) * DigitsValue(Unsigned(Exponent(u)))
             ELSE 0
        n == DigitsValue(IntPart(m) \o FracPart(m))
    IN  IF sign * n >= 0
        THEN Normalized(sign * n, x - Len(FracPart(m)))
        ELSE LET p == Normalized(n, x - Len(FracPart(m)))
             IN  FloatV(-p.n, p.e)

Py_float(s) ==
    IF ~FloatParses(s) THEN Raise("ValueError")
    ELSE LET c == Cleaned(s)
             u == Unsigned(c)
         IN  IF SpecialFloat(u) = "nan" THEN FloatSpecial("nan")
             ELSE IF SpecialFloat(u) = "inf"
             THEN FloatSpecial(IF SignOf(c) < 0 THEN "-inf" ELSE "inf")
             ELSE DecimalValue(SignOf(c), u)

(***************************************************************************)
(* The reshaping functions of db.py.                                       *)
(***************************************************************************)
RECURSIVE LastSegment(_)
LastSegment(s) ==
    IF FirstIn(s, {"."}, 1) > Len(s) THEN s
    ELSE LastSegment(SubSeq(s, FirstIn(s, {"."}, 1) + 1, Len(s)))

\* full_class_name.split(".")[-1]; a non-str has no split
get_class_name(full_class_name) ==
    IF IsStr(full_class_name) THEN Str(LastSegment(full_class_name.s))
    ELSE Raise("AttributeError")

convert_value_float_first(val) ==
    IF ~IsStr(val) THEN val
    ELSE LET f == Py_float(val.s)
             n == Py_int(val.s)
         IN  IF ~IsExc(f) THEN f
             ELSE IF ~IsExc(n) THEN n
             ELSE val

convert_value(val) ==
    IF ~IsStr(val) THEN val
    ELSE LET n == Py_int(val.s)
             f == Py_float(val.s)
         IN  IF ~IsExc(n) THEN n
             ELSE IF n.kind # "ValueError" THEN n
             ELSE IF ~IsExc(f) THEN f
             ELSE IF f.kind # "ValueError" THEN f
             ELSE val

key_mapper(orig_key) ==
    IF orig_key \in {"keyspace_name", "table_name"} THEN "name" ELSE orig_key

(***************************************************************************)
(* Inputs of the conversion harness.                                       *)
(***************************************************************************)
Alphabet == {"1", "0", ".", "-", "e", "n", "a", "_", " "}

RECURSIVE StringsUpTo(_)
StringsUpTo(n) ==
    IF n = 0 THEN {<<>>}
    ELSE LET shorter == StringsUpTo(n - 1)
         IN  shorter \cup {Append(s, c) : s \in shorter, c \in Alphabet}

NonStrings ==
    {IntV(1), FloatV(1, 0), ListV(<<IntV(1), IntV(2)>>), NoneV, BoolV(TRUE)}

ConvInputs == {Str(s) : s \in StringsUpTo(MaxStrLen)} \cup NonStrings

IdleRun ==
    /\ pc = "idle" /\ connection = NoneV /\ stmt = <<>> /\ clusters = <<>>
    /\ sessions = <<>> /\ log = <<>> /\ pending = NoneV /\ queries = <<>>
    /\ rows = <<>> /\ keyspaces = <<>> /\ ksi = 0 /\ outcome = Pending

\* a default-constructed ConnectionParams
IdleParams ==
    /\ username = NoneV /\ password = NoneV /\ is_ssl_required = FALSE
    /\ auth_provider = NoneV /\ ssl_context = NoneV
    /\ host = DictGet(get_local_connection.entries, "hosts").items
    /\ port = DictGet(get_local_connection.entries, "port").i
    /\ assigns = 0

IdleFn == arg = NoneV /\ res = Pending /\ fn = ""

InitConv ==
    /\ arg \in ConvInputs
    /\ res = Pending /\ fn = ""
    /\ IdleRun /\ IdleParams

ConvertValue ==
    /\ res = Pending
    /\ res' = convert_value(arg)
    /\ fn' = "convert_value"
    /\ UNCHANGED <<arg, runVars, cpVars>>

NextConv == ConvertValue

SpecConv == InitConv /\ [][NextConv]_vars

\* C6: convert_value is total with a fixed priority: a non-string comes back
\* unchanged; a string int() accepts gives that integer; a string int()
\* rejects and float() accepts gives that float; any other string comes back
\* unchanged; no call raises.
C6_ConvertPriority ==
    res # Pending =>
        /\ ~IsExc(res)
        /\ ~IsStr(arg) => res = arg
        /\ IsStr(arg) /\ IntParses(arg.s) => res = Py_int(arg.s) /\ res.t = "int"
        /\ IsStr(arg) /\ ~IntParses(arg.s) /\ FloatParses(arg.s) =>
                res = Py_float(arg.s) /\ res.t = "float"
        /\ IsStr(arg) /\ ~IntParses(arg.s) /\ ~FloatParses(arg.s) => res = arg
        /\ arg = Str(<<"1">>) => res = IntV(1)
        /\ arg = Str(<<"1", ".", "0">>) => res = FloatV(1, 0)
        /\ arg = Str(<<"n", "e">>) => res = arg

\* a string both parsers accept ("10") was converted, by the integer parser
C6_Witness ==
    /\ arg = Str(<<"1", "0">>) /\ FloatParses(arg.s)
    /\ res = IntV(10)

(***************************************************************************)
(* get_replication_settings and get_subconfig_settings.  An exception      *)
(* raised inside the loop ends the call with that exception.               *)
(***************************************************************************)
DataCenter(name, value) ==
    DictV(<<<<"name", Text(name)>>,
            <<"replication_factor", convert_value(value)>>>>)

RECURSIVE ReplLoop(_, _, _, _)
ReplLoop(replication, i, repl_config, data_centers) ==
    IF i > Len(replication)
    THEN DictV(DictSet(repl_config, "data_centers", ListV(data_centers)))
    ELSE LET key == replication[i][1] IN
         IF key = "class"
         THEN LET c == get_class_name(DictGet(replication, "class")) IN
              IF IsExc(c) THEN c
              ELSE ReplLoop(replication, i + 1,
                            DictSet(repl_config, "class", c), data_centers)
         ELSE IF key = "replication_factor"
         THEN ReplLoop(replication, i + 1,
                       DictSet(repl_config, "replication_factor",
                               convert_value(DictGet(replication,
                                                     "replication_factor"))),
                       data_centers)
         ELSE ReplLoop(replication, i + 1, repl_config,
                       Append(data_centers,
                              DataCenter(key, DictGet(replication, key))))

\* the plausible slip: a replication_factor key even when the input has none
get_replication_settings_defaulting(replication) ==
    IF ~IsMap(replication) THEN DictV(<<>>)
    ELSE LET r == ReplLoop(replication.entries, 1, <<>>, <<>>) IN
         IF IsExc(r) \/ DictHas(r.entries, "replication_factor") THEN r
         ELSE DictV(DictSet(r.entries, "replication_factor", NoneV))

get_replication_settings(replication) ==
    IF ~IsMap(replication) THEN DictV(<<>>)
    ELSE ReplLoop(replication.entries, 1, <<>>, <<>>)

RECURSIVE SubconfigLoop(_, _, _)
SubconfigLoop(subconfig, i, settings) ==
    IF i > Len(subconfig) THEN DictV(settings)
    ELSE LET key == subconfig[i][1]
             value == IF key = "class" THEN get_class_name(subconfig[i][2])
                      ELSE subconfig[i][2]
         IN  IF IsExc(value) THEN value
             ELSE SubconfigLoop(subconfig, i + 1,
                                DictSet(settings, key, convert_value(value)))

\* the plausible slip: coerce first, strip the namespace never
get_subconfig_settings_unstripped(subconfig) ==
    IF ~IsMap(subconfig) THEN DictV(<<>>)
    ELSE DictV([i \in 1..Len(subconfig.entries) |->
                  <<subconfig.entries[i][1],
                    convert_value(subconfig.entries[i][2])>>])

get_subconfig_settings(subconfig) ==
    IF ~IsMap(subconfig) THEN DictV(<<>>)
    ELSE SubconfigLoop(subconfig.entries, 1, <<>>)

(***************************************************************************)
(* Inputs of the normalizer harness: maps of text to text, as the catalog  *)
(* holds them, and values that are no map.                                 *)
(***************************************************************************)
MapKeys == {"class", "replication_factor", "dc1", "dc2"}

MapVals ==
    {Str(<<"3">>), Str(<<"1", ".", "5">>), Str(<<"o", ".", "a", ".", "S">>),
     Str(<<"o", ".", "7">>), Str(<<"x">>)}

RECURSIVE MapsOfLen(_)
MapsOfLen(n) ==
    IF n = 0 THEN {<<>>}
    ELSE {Append(m, <<k, v>>) :
            m \in MapsOfLen(n - 1), k \in MapKeys, v \in MapVals}

DistinctKeys(m) ==
    \A i, j \in 1..Len(m) : m[i][1] = m[j][1] => i = j

EntriesUpTo(n) ==
    UNION {{m \in MapsOfLen(k) : DistinctKeys(m)} : k \in 0..n}

NonMaps == {NoneV, DictV(<<>>), Str(<<"x">>), ListV(<<>>)}

NormInputs == {MapV(m) : m \in EntriesUpTo(MaxEntries)} \cup NonMaps

InitNorm ==
    /\ arg \in NormInputs
    /\ res = Pending /\ fn = ""
    /\ IdleRun /\ IdleParams

ReplicationSettings ==
    /\ res = Pending
    /\ res' = get_replication_settings(arg)
    /\ fn' = "get_replication_settings"
    /\ UNCHANGED <<arg, runVars, cpVars>>

SubconfigSettings ==
    /\ res = Pending
    /\ res' = get_subconfig_settings(arg)
    /\ fn' = "get_subconfig_settings"
    /\ UNCHANGED <<arg, runVars, cpVars>>

NextNorm == ReplicationSettings \/ SubconfigSettings

SpecNorm == InitNorm /\ [][NextNorm]_vars

\* the data-center entries the replication normalizer owes for a map
DataCenterKeys(m) ==
    SelectSeq(m, LAMBDA e : e[1] \notin {"class", "replication_factor"})

\* C5: for a recognized map, get_replication_settings returns an object in
\* which "class" is the last "."-separated segment of the input class, left a
\* string; "replication_factor" is the coerced input value and is present
\* exactly when it is a key of the input; "data_centers" is always present and
\* holds one {name, replication_factor} entry per other input key, in input
\* order; no other key appears.  An input that is no map gives {}.
C5_ReplicationShape ==
    fn = "get_replication_settings" =>
        IF ~IsMap(arg) THEN res = DictV(<<>>)
        ELSE LET m == arg.entries
                 out == res.entries
                 dcs == DataCenterKeys(m)
             IN  /\ res.t = "dict"
                 /\ \A i \in 1..Len(out) :
                       out[i][1] \in {"class", "replication_factor",
                                      "data_centers"}
                 /\ DictHas(out, "class") <=> DictHas(m, "class")
                 /\ DictHas(m, "class") =>
                       DictGet(out, "class")
                         = Str(LastSegment(DictGet(m, "class").s))
                 /\ DictHas(out, "replication_factor")
                       <=> DictHas(m, "replication_factor")
                 /\ DictHas(m, "replication_factor") =>
                       DictGet(out, "replication_factor")
                         = convert_value(DictGet(m, "replication_factor"))
                 /\ DictHas(out, "data_centers")
                 /\ DictGet(out, "data_centers") =
                       ListV([i \in 1..Len(dcs) |->
                                DictV(<<<<"name", Text(dcs[i][1])>>,
                                        <<"replication_factor",
                                          convert_value(dcs[i][2])>>>>)])

\* a map with a class and one data center, no replication_factor: the output
\* has the stripped class, the data center with its factor coerced, and no
\* "replication_factor" key
C5_Witness ==
    /\ fn = "get_replication_settings"
    /\ arg = MapV(<<<<"class", Str(<<"o", ".", "7">>)>>,
                    <<"dc1", Str(<<"3">>)>>>>)
    /\ res = DictV(<<<<"class", Str(<<"7">>)>>,
                     <<"data_centers",
                       ListV(<<DictV(<<<<"name", Text("dc1")>>,
                                       <<"replication_factor", IntV(3)>>>>)>>)>>>>)

\* C10: for a recognized map, get_subconfig_settings returns a flat object
\* with exactly the input's keys, in order; each value is convert_value of the
\* input value, the value under "class" being cut to its last "."-separated
\* segment first.  An input that is no map gives {}.
C10_SubconfigShape ==
    fn = "get_subconfig_settings" =>
        IF ~IsMap(arg) THEN res = DictV(<<>>)
        ELSE LET m == arg.entries
                 out == res.entries
             IN  /\ res.t = "dict"
                 /\ DictKeys(out) = DictKeys(m)
                 /\ \A i \in 1..Len(m) :
                       out[i][2] =
                         IF m[i][1] = "class"
                         THEN convert_value(Str(LastSegment(m[i][2].s)))
                         ELSE convert_value(m[i][2])

\* a class whose last segment is numeric comes out as a number
C10_Witness ==
    /\ fn = "get_subconfig_settings"
    /\ arg = MapV(<<<<"class", Str(<<"o", ".", "7">>)>>,
                    <<"dc1", Str(<<"1", ".", "5">>)>>>>)
    /\ res = DictV(<<<<"class", IntV(7)>>, <<"dc1", FloatV(15, -1)>>>>)

(***************************************************************************)
(* str(v), as get_table_configs applies it to the "id" column.             *)
(***************************************************************************)
HexChar(d) ==
    CASE d = 10 -> "a" [] d = 11 -> "b" [] d = 12 -> "c" [] d = 13 -> "d"
      [] d = 14 -> "e" [] d = 15 -> "f" [] d = 0 -> "0" [] d = 1 -> "1"
      [] d = 2 -> "2" [] d = 3 -> "3" [] d = 4 -> "4" [] d = 5 -> "5"
      [] d = 6 -> "6" [] d = 7 -> "7" [] d = 8 -> "8" [] d = 9 -> "9"

RECURSIVE HexText(_, _)
HexText(n, width) ==
    IF width = 0 THEN <<>>
    ELSE Append(HexText(n \div 16, width - 1), HexChar(n % 16))

RECURSIVE DecimalText(_)
DecimalText(n) ==
    IF n < 10 THEN <<HexChar(n)>>
    ELSE Append(DecimalText(n \div 10), HexChar(n % 10))

\* str(uuid.UUID): 32 hex digits of the 128-bit value, grouped 8-4-4-4-12
Py_str(v) ==
    IF v.t = "UUID"
    THEN LET h == HexText(v.hex, 32) IN
         Str(SubSeq(h, 1, 8) \o <<"-">> \o SubSeq(h, 9, 12) \o <<"-">>
             \o SubSeq(h, 13, 16) \o <<"-">> \o SubSeq(h, 17, 20) \o <<"-">>
             \o SubSeq(h, 21, 32))
    ELSE IF v.t = "int"
    THEN Str(IF v.i < 0 THEN <<"-">> \o DecimalText(-v.i) ELSE DecimalText(v.i))
    ELSE IF v.t = "None" THEN Str(<<"N", "o", "n", "e">>)
    ELSE v

(***************************************************************************)
(* The row loops of get_table_configs and get_keyspace_configs.  A row is  *)
(* what ordered_dict_factory builds: <<column, value>> pairs in order.     *)
(***************************************************************************)
TableValue(k, v) ==
    IF IsMap(v)
    THEN IF k = "replication" THEN get_replication_settings(v)
         ELSE get_subconfig_settings(v)
    ELSE IF k = "flags"
    THEN IF v.t = "SortedSet" THEN ListV(v.items) ELSE v
    ELSE IF k = "id" THEN Py_str(v)
    ELSE v

RECURSIVE TableRowKeepingKeyspace(_, _, _)
TableRowKeepingKeyspace(row, i, t) ==
    IF i > Len(row) THEN DictV(t)
    ELSE LET k == row[i][1]
             v == TableValue(k, row[i][2])
         IN  IF IsExc(v) THEN v
             ELSE TableRowKeepingKeyspace(row, i + 1,
                                          DictSet(t, key_mapper(k), v))

RECURSIVE TableRow(_, _, _)
TableRow(row, i, t) ==
    IF i > Len(row) THEN DictV(t)
    ELSE LET k == row[i][1] IN
         IF k = "keyspace_name" THEN TableRow(row, i + 1, t)
         ELSE LET v == TableValue(k, row[i][2]) IN
              IF IsExc(v) THEN v
              ELSE TableRow(row, i + 1, DictSet(t, key_mapper(k), v))

\* the first exception among the reshaped rows, else the list of them
Collected(configs) ==
    IF \E i \in 1..Len(configs) : IsExc(configs[i])
    THEN configs[CHOOSE i \in 1..Len(configs) :
                    /\ IsExc(configs[i])
                    /\ \A j \in 1..(i - 1) : ~IsExc(configs[j])]
    ELSE ListV(configs)

\* the plausible slip: the keyspace_name column is not dropped
table_configs_keeping_keyspace(result) ==
    Collected([i \in 1..Len(result) |->
                 TableRowKeepingKeyspace(result[i], 1, <<>>)])

\* get_table_configs, from the rows exec_query returned
table_configs(result) ==
    Collected([i \in 1..Len(result) |-> TableRow(result[i], 1, <<>>)])

IsSystemKeyspace(ks_name) ==
    \/ ks_name = <<"s", "y", "s", "t", "e", "m">>
    \/ startswith(ks_name, <<"s", "y", "s", "t", "e", "m", "_">>)

RECURSIVE KeyspaceRow(_, _, _)
KeyspaceRow(row, i, ks) ==
    IF i > Len(row) THEN DictV(ks)
    ELSE LET nk == key_mapper(row[i][1])
             v == IF nk = "replication"
                  THEN get_replication_settings(row[i][2])
                  ELSE row[i][2]
         IN  IF IsExc(v) THEN v
             ELSE KeyspaceRow(row, i + 1, DictSet(ks, nk, v))

\* the plausible slip: the filter test on the name as stored
KeptCaseSensitive(row) == ~IsSystemKeyspace(DictGet(row, "keyspace_name").s)

\* row.get("keyspace_name").lower() is neither "system" nor starts "system_"
Kept(row) == ~IsSystemKeyspace(lower(DictGet(row, "keyspace_name").s))

\* get_keyspace_configs, from the rows exec_query returned
keyspace_configs(result) ==
    LET kept == SelectSeq(result, Kept) IN
    Collected([i \in 1..Len(kept) |-> KeyspaceRow(kept[i], 1, <<>>)])

(***************************************************************************)
(* Inputs of the table harness: result sets of the tables catalog, with at *)
(* most MaxCells columns over all their rows.                              *)
(***************************************************************************)
TableColumns ==
    << <<"keyspace_name", Str(<<"k", "s">>)>>,
       <<"table_name", Str(<<"t", "1">>)>>,
       <<"caching", MapV(<<<<"keys", Str(<<"A", "L", "L">>)>>,
                           <<"rows_per_partition", Str(<<"1", "0">>)>>>>)>>,
       <<"comment", Str(<<"3">>)>>,
       <<"compaction", MapV(<<<<"class", Str(<<"o", ".", "S">>)>>,
                              <<"min_threshold", Str(<<"4">>)>>>>)>>,
       <<"flags", SortedSetV(<<Str(<<"c">>), Str(<<"d">>)>>)>>,
       <<"gc_grace_seconds", IntV(864000)>>,
       <<"id", UuidV(6699)>>,
       <<"replication", MapV(<<<<"class", Str(<<"o", ".", "N">>)>>,
                               <<"dc1", Str(<<"2">>)>>>>)>>,
       <<"flags", NoneV>> >>

\* the rows of n columns, in catalog order, whose first column is at or after
\* position from
RECURSIVE RowsOfLen(_, _)
RowsOfLen(n, from) ==
    IF n = 0 THEN {<<>>}
    ELSE UNION {{<<TableColumns[c]>> \o r : r \in RowsOfLen(n - 1, c + 1)} :
                  c \in from..Len(TableColumns)}

RECURSIVE ResultSets(_)
ResultSets(cells) ==
    {<<>>} \cup
    UNION {{<<r>> \o rest : r \in {x \in RowsOfLen(n, 1) : DistinctKeys(x)},
                            rest \in ResultSets(cells - n)} : n \in 1..cells}

InitTable ==
    /\ arg \in {ListV(r) : r \in ResultSets(MaxCells)}
    /\ res = Pending /\ fn = ""
    /\ IdleRun /\ IdleParams

ReshapeTables ==
    /\ res = Pending
    /\ res' = table_configs(arg.items)
    /\ fn' = "get_table_configs"
    /\ UNCHANGED <<arg, runVars, cpVars>>

NextReshape == ReshapeTables

SpecTable == InitTable /\ [][NextReshape]_vars

\* the columns of a row that get_table_configs owes an entry for
EmittedColumns(row) == SelectSeq(row, LAMBDA c : c[1] # "keyspace_name")

\* C9: get_table_configs emits one object per row, in row order; it has no
\* "keyspace_name" key; its keys are the row's other columns in order, with
\* "table_name" under "name"; "id" holds the string form; a set-typed "flags"
\* is a list; a map-typed field holds the replication normalizer's result
\* when it is "replication" and the generic normalizer's otherwise; every
\* other field keeps its value.
C9_TableShape ==
    fn = "get_table_configs" =>
        /\ res.t = "list"
        /\ Len(res.items) = Len(arg.items)
        /\ \A r \in 1..Len(arg.items) :
              LET cols == EmittedColumns(arg.items[r])
                  t == res.items[r].entries
              IN  /\ ~DictHas(t, "keyspace_name")
                  /\ ~DictHas(t, "table_name")
                  /\ Len(t) = Len(cols)
                  /\ \A i \in 1..Len(cols) :
                        LET k == cols[i][1]
                            v == cols[i][2]
                        IN  /\ t[i][1] = IF k = "table_name" THEN "name" ELSE k
                            /\ t[i][2] =
                                 CASE IsMap(v) /\ k = "replication" ->
                                        get_replication_settings(v)
                                   [] IsMap(v) /\ k # "replication" ->
                                        get_subconfig_settings(v)
                                   [] ~IsMap(v) /\ k = "id" -> Py_str(v)
                                   [] ~IsMap(v) /\ k = "flags"
                                        /\ v.t = "SortedSet" -> ListV(v.items)
                                   [] OTHER -> v

\* two rows came back: keyspace_name and id, then table_name; the first was
\* emitted as the id's text alone, the second under "name"
C9_Witness ==
    /\ fn = "get_table_configs"
    /\ Len(arg.items) = 2
    /\ DictKeys(arg.items[1]) = <<"keyspace_name", "id">>
    /\ DictKeys(arg.items[2]) = <<"table_name">>
    /\ res.items[1] =
         DictV(<<<<"id", Str(<<"0", "0", "0", "0", "0", "0", "0", "0", "-",
                               "0", "0", "0", "0", "-", "0", "0", "0", "0", "-",
                               "0", "0", "0", "0", "-", "0", "0", "0", "0",
                               "0", "0", "0", "0", "1", "a", "2", "b">>)>>>>)
    /\ res.items[2] = DictV(<<<<"name", Str(<<"t", "1">>)>>>>)

(***************************************************************************)
(* get_current_config: the catalog queries, each through exec_query.       *)
(*                                                                         *)
(* exec_query is followed statement by statement, since a connection is    *)
(* open between them: Cluster(...), cluster.connect("system_schema"),      *)
(* session.execute, the exit of the with block (Session.__exit__ shuts the *)
(* session down), the except clauses.  Nothing in exec_query calls         *)
(* cluster.shutdown(); the driver itself shuts a cluster down only inside  *)
(* a connect() that fails, which is how a failed connect is modelled.      *)
(***************************************************************************)
Exc(kind, message) == [t |-> "exception", kind |-> kind, message |-> message]

ConnectErrors ==
    {Exc("NoHostAvailable", "Unable to connect to any servers: 10.0.0.1"),
     Exc("DriverException", "Unable to set up the control connection")}

ExecuteErrors ==
    {Exc("NoHostAvailable", "Unable to complete the operation: 10.0.0.1"),
     Exc("ReadTimeout", "Operation timed out")}

GenericError ==
    Exc("Exception", "Failed to connect to Cassandra. See log for details.")

\* the callers' connection argument: absent, empty, partial, complete
Connections ==
    {NoneV, DictV(<<>>),
     DictV(<<<<"hosts", ListV(<<Text("10.0.0.1")>>)>>>>),
     DictV(<<<<"hosts", ListV(<<Text("10.0.0.1")>>)>>,
             <<"port", IntV(DEFAULT_PORT + 1)>>,
             <<"load_balancing_policy", [t |-> "RoundRobinPolicy"]>>>>)}

\* "not connection": None and the empty dict
Falsy(c) == c = NoneV \/ (c.t = "dict" /\ c.entries = <<>>)

KeyspacesStmt == <<"SELECT * FROM keyspaces">>

\* "SELECT * FROM tables WHERE keyspace_name = '{}';".format(keyspace_name)
TablesStmt(keyspace_name) ==
    <<"SELECT * FROM tables WHERE keyspace_name = '",
      Py_str(keyspace_name).s, "';">>

NewClusterObject(c) ==
    [state |-> "created",
     hosts |-> DictGetOr(c.entries, "hosts",
                         DictGet(get_local_connection.entries, "hosts")),
     port |-> DictGetOr(c.entries, "port",
                        DictGet(get_local_connection.entries, "port")),
     load_balancing_policy |->
         DictGetOr(c.entries, "load_balancing_policy",
                   DictGet(get_local_connection.entries,
                           "load_balancing_policy"))]

\* the plausible slip: every failure becomes the generic error
handled_all_generic(ex) == GenericError

\* the plausible slip: the failure is logged and an empty list returned
handled_returning_empty(ex) == ListV(<<>>)

\* the except clauses of exec_query, after logging.exception(ex): what the
\* call ends with
handled(ex) ==
    IF ex.kind = "NoHostAvailable" THEN GenericError ELSE ex

(***************************************************************************)
(* What the catalog can answer.                                            *)
(***************************************************************************)
KeyspaceNames ==
    {<<"s", "y", "s", "t", "e", "m">>,
     <<"s", "y", "s", "t", "e", "m", "_", "a", "u", "t", "h">>,
     <<"S", "Y", "S", "T", "E", "M", "_", "A", "u", "t", "h">>,
     <<"s", "y", "s", "t", "e", "m", "_", "c", "u", "s", "t", "o", "m", "_",
       "a", "p", "p">>,
     <<"m", "y", "_", "a", "p", "p">>,
     <<"s", "y", "s", "t", "e", "m", "s">>,
     <<"M", "y", "S", "y", "s", "t", "e", "m", "_">>}

KeyspaceCatalogRow(name) ==
    <<<<"keyspace_name", Str(name)>>,
      <<"durable_writes", BoolV(TRUE)>>,
      <<"replication",
        MapV(<<<<"class", Str(<<"o", ".", "S">>)>>,
               <<"replication_factor", Str(<<"3">>)>>>>)>>>>

RECURSIVE KeyspaceResults(_)
KeyspaceResults(n) ==
    IF n = 0 THEN {<<>>}
    ELSE LET shorter == KeyspaceResults(n - 1) IN
         shorter \cup
         {Append(r, KeyspaceCatalogRow(name)) :
            r \in {x \in shorter : Len(x) = n - 1}, name \in KeyspaceNames}

\* keyspace_name is the catalog's primary key
DistinctNames(result) ==
    \A i, j \in 1..Len(result) :
        DictGet(result[i], "keyspace_name") = DictGet(result[j], "keyspace_name")
            => i = j

TableResults ==
    {<<>>,
     <<<<TableColumns[1], TableColumns[2], TableColumns[6], TableColumns[8]>>>>}

Results(statement) ==
    IF statement = KeyspacesStmt
    THEN {r \in KeyspaceResults(MaxKs) : DistinctNames(r)}
    ELSE TableResults

Init ==
    /\ IdleRun /\ IdleParams /\ IdleFn

\* get_current_config(connection): the default for a missing connection,
\* then get_keyspace_configs calls exec_query
GetCurrentConfig ==
    /\ pc = "idle"
    /\ \E c \in Connections :
          connection' = IF Falsy(c) THEN get_local_connection ELSE c
    /\ stmt' = KeyspacesStmt
    /\ pc' = "cluster"
    /\ UNCHANGED <<clusters, sessions, log, pending, queries, rows, keyspaces,
                   ksi, outcome, fnVars, cpVars>>

\* cluster = cassandra.cluster.Cluster(hosts, port=..., ...)
NewCluster ==
    /\ pc = "cluster"
    /\ clusters' = Append(clusters, NewClusterObject(connection))
    /\ pc' = "connect"
    /\ UNCHANGED <<connection, stmt, sessions, log, pending, queries, rows,
                   keyspaces, ksi, outcome, fnVars, cpVars>>

\* cluster.connect("system_schema", wait_for_all_pools = True) returns a session
ConnectOk ==
    /\ pc = "connect"
    /\ clusters' = [clusters EXCEPT ![Len(clusters)].state = "connected"]
    /\ sessions' = Append(sessions, [state |-> "open",
                                     keyspace |-> "system_schema",
                                     cluster |-> Len(clusters)])
    /\ pc' = "execute"
    /\ UNCHANGED <<connection, stmt, log, pending, queries, rows, keyspaces,
                   ksi, outcome, fnVars, cpVars>>

\* cluster.connect raises: no session, the with block is never entered
ConnectFail ==
    /\ pc = "connect"
    /\ \E e \in ConnectErrors : pending' = e
    /\ clusters' = [clusters EXCEPT ![Len(clusters)].state = "shutdown"]
    /\ pc' = "handler"
    /\ UNCHANGED <<connection, stmt, sessions, log, queries, rows, keyspaces,
                   ksi, outcome, fnVars, cpVars>>

\* rows = session.execute(query_stmt), then rows.current_rows
ExecuteOk ==
    /\ pc = "execute"
    /\ \E result \in Results(stmt) :
          /\ rows' = ListV(result)
          /\ queries' = Append(queries, [stmt |-> stmt,
                                         session |-> Len(sessions),
                                         result |-> ListV(result)])
    /\ pc' = "exit"
    /\ UNCHANGED <<connection, stmt, clusters, sessions, log, pending,
                   keyspaces, ksi, outcome, fnVars, cpVars>>

\* session.execute raises inside the with block
ExecuteFail ==
    /\ pc = "execute"
    /\ \E e \in ExecuteErrors :
          /\ pending' = e
          /\ queries' = Append(queries, [stmt |-> stmt,
                                         session |-> Len(sessions),
                                         result |-> e])
    /\ pc' = "exit"
    /\ UNCHANGED <<connection, stmt, clusters, sessions, log, rows, keyspaces,
                   ksi, outcome, fnVars, cpVars>>

\* leaving the with block: Session.__exit__ shuts the session down; then the
\* return, or the exception travels to the except clauses
SessionExit ==
    /\ pc = "exit"
    /\ sessions' = [sessions EXCEPT ![Len(sessions)].state = "closed"]
    /\ pc' = IF pending # NoneV THEN "handler"
             ELSE IF stmt = KeyspacesStmt THEN "keyspace_rows"
             ELSE "table_rows"
    /\ UNCHANGED <<connection, stmt, clusters, log, pending, queries, rows,
                   keyspaces, ksi, outcome, fnVars, cpVars>>

\* except ...: logging.exception(ex), then raise.  No caller up to
\* get_current_config catches, so a raise ends the whole call.  Both clauses
\* raise, so the "return []" after them is never reached: the ELSE branch is
\* the path an except clause that returned would take.
Handler ==
    /\ pc = "handler"
    /\ log' = Append(log, pending)
    /\ IF IsExc(handled(pending))
       THEN /\ outcome' = handled(pending)
            /\ pc' = "done"
            /\ rows' = rows
       ELSE /\ rows' = handled(pending)
            /\ pc' = IF stmt = KeyspacesStmt THEN "keyspace_rows"
                     ELSE "table_rows"
            /\ outcome' = outcome
    /\ UNCHANGED <<connection, stmt, clusters, sessions, pending, queries,
                   keyspaces, ksi, fnVars, cpVars>>

\* get_keyspace_configs: the loop over the rows exec_query returned
KeyspaceConfigs ==
    /\ pc = "keyspace_rows"
    /\ IF IsExc(keyspace_configs(rows.items))
       THEN /\ outcome' = keyspace_configs(rows.items)
            /\ pc' = "done"
            /\ keyspaces' = keyspaces
       ELSE /\ keyspaces' = keyspace_configs(rows.items).items
            /\ pc' = "loop"
            /\ outcome' = outcome
    /\ ksi' = 0
    /\ UNCHANGED <<connection, stmt, clusters, sessions, log, pending, queries,
                   rows, fnVars, cpVars>>

\* for ks in keyspaces.get("keyspaces", []): get_table_configs(connection,
\* ks.get("name")) builds its statement and calls exec_query
ForEachKeyspace ==
    /\ pc = "loop"
    /\ ksi < Len(keyspaces)
    /\ stmt' = TablesStmt(DictGet(keyspaces[ksi + 1].entries, "name"))
    /\ pc' = "cluster"
    /\ UNCHANGED <<connection, clusters, sessions, log, pending, queries, rows,
                   keyspaces, ksi, outcome, fnVars, cpVars>>

\* get_table_configs: the loop over the rows, then ks["tables"] = ...
TableConfigs ==
    /\ pc = "table_rows"
    /\ IF IsExc(table_configs(rows.items))
       THEN /\ outcome' = table_configs(rows.items)
            /\ pc' = "done"
            /\ UNCHANGED <<keyspaces, ksi>>
       ELSE /\ keyspaces' =
                 [keyspaces EXCEPT ![ksi + 1] =
                     DictV(DictSet(@.entries, "tables",
                                   table_configs(rows.items)))]
            /\ ksi' = ksi + 1
            /\ pc' = "loop"
            /\ outcome' = outcome
    /\ UNCHANGED <<connection, stmt, clusters, sessions, log, pending, queries,
                   rows, fnVars, cpVars>>

\* return keyspaces
Return ==
    /\ pc = "loop"
    /\ ksi = Len(keyspaces)
    /\ outcome' = DictV(<<<<"keyspaces", ListV(keyspaces)>>>>)
    /\ pc' = "done"
    /\ UNCHANGED <<connection, stmt, clusters, sessions, log, pending, queries,
                   rows, keyspaces, ksi, fnVars, cpVars>>

Next ==
    \/ GetCurrentConfig \/ NewCluster \/ ConnectOk \/ ConnectFail
    \/ ExecuteOk \/ ExecuteFail \/ SessionExit \/ Handler
    \/ KeyspaceConfigs \/ ForEachKeyspace \/ TableConfigs \/ Return

Spec == Init /\ [][Next]_vars

(***************************************************************************)
(* Claims about the queries of one get_current_config call.                *)
(***************************************************************************)
InExecQuery == pc \in {"cluster", "connect", "execute", "exit", "handler"}

OpenClusters == {i \in 1..Len(clusters) : clusters[i].state = "connected"}
OpenSessions == {i \in 1..Len(sessions) : sessions[i].state = "open"}

NameOf(ks) == DictGet(ks.entries, "name")

\* C1: whenever exec_query is not running, everything its calls opened is
\* closed: no cluster is still connected and no session is still open.
C1_AsClaimed ==
    ~InExecQuery => OpenClusters = {} /\ OpenSessions = {}

\* the session half of C1: no session outlives the exec_query call it served
SessionsClosedOnExit == ~InExecQuery => OpenSessions = {}

\* the statements run so far are the keyspace query, then one table query per
\* emitted keyspace, in list order, each under the emitted name
QueriesInOrder ==
    /\ Len(queries) >= 1 => queries[1].stmt = KeyspacesStmt
    /\ Len(queries) <= 1 + Len(keyspaces)
    /\ \A i \in 2..Len(queries) :
          queries[i].stmt = TablesStmt(NameOf(keyspaces[i - 1]))
    /\ outcome.t = "dict" => Len(queries) = 1 + Len(keyspaces)

\* every statement ran on the session its own exec_query call obtained, and
\* every session on the cluster that call created
FreshConnectionPerQuery ==
    /\ \A i \in 1..Len(queries) :
          /\ queries[i].session \in 1..Len(sessions)
          /\ sessions[queries[i].session].cluster \in 1..Len(clusters)
    /\ \A i, j \in 1..Len(queries) :
          queries[i].session = queries[j].session => i = j
    /\ \A i, j \in 1..Len(sessions) :
          sessions[i].cluster = sessions[j].cluster => i = j
    /\ \A i \in 1..Len(sessions) : sessions[i].keyspace = "system_schema"

\* C8: the queries run serially in the fixed order, each on a connection of
\* its own, and at no point are two connections open at once.
C8_AsClaimed ==
    /\ QueriesInOrder
    /\ FreshConnectionPerQuery
    /\ Cardinality(OpenSessions) <= 1
    /\ Cardinality(OpenClusters) <= 1

\* the part of C8 the code keeps: order, one fresh session per query, never
\* two sessions open at once
SerialQueries ==
    QueriesInOrder /\ FreshConnectionPerQuery /\ Cardinality(OpenSessions) <= 1

KeyspacesReshaped ==
    \/ pc \in {"loop", "table_rows"}
    \/ stmt # KeyspacesStmt /\ stmt # <<>>
    \/ outcome.t = "dict"

CatalogNames ==
    [i \in 1..Len(queries[1].result.items) |->
        DictGet(queries[1].result.items[i], "keyspace_name")]

EmittedNames == [i \in 1..Len(keyspaces) |-> NameOf(keyspaces[i])]

NotSystemName(n) ==
    /\ lower(n.s) # <<"s", "y", "s", "t", "e", "m">>
    /\ ~(/\ Len(n.s) >= 7
         /\ SubSeq(lower(n.s), 1, 7) = <<"s", "y", "s", "t", "e", "m", "_">>)

\* C2: the "keyspaces" list holds exactly the catalog rows whose lower-cased
\* keyspace_name is neither "system" nor starts with "system_", in row order,
\* each under its name as stored; "system", "system_auth", "SYSTEM_Auth" and
\* "system_custom_app" never appear and "my_app" always does.
C2_KeyspaceFilter ==
    KeyspacesReshaped =>
        /\ EmittedNames = SelectSeq(CatalogNames, NotSystemName)
        /\ \A i \in 1..Len(EmittedNames) :
              EmittedNames[i].s \notin
                {<<"s", "y", "s", "t", "e", "m">>,
                 <<"s", "y", "s", "t", "e", "m", "_", "a", "u", "t", "h">>,
                 <<"S", "Y", "S", "T", "E", "M", "_", "A", "u", "t", "h">>,
                 <<"s", "y", "s", "t", "e", "m", "_", "c", "u", "s", "t", "o",
                   "m", "_", "a", "p", "p">>}
        /\ (\E i \in 1..Len(CatalogNames) :
               CatalogNames[i] = Str(<<"m", "y", "_", "a", "p", "p">>))
             => \E i \in 1..Len(EmittedNames) :
                   EmittedNames[i] = Str(<<"m", "y", "_", "a", "p", "p">>)

\* the catalog held SYSTEM_Auth and MySystem_: only the second was emitted,
\* in its stored case
C2_Witness ==
    /\ KeyspacesReshaped
    /\ CatalogNames =
         <<Str(<<"S", "Y", "S", "T", "E", "M", "_", "A", "u", "t", "h">>),
           Str(<<"M", "y", "S", "y", "s", "t", "e", "m", "_">>)>>
    /\ EmittedNames = <<Str(<<"M", "y", "S", "y", "s", "t", "e", "m", "_">>)>>

\* C3: a failure has exactly two outcomes.  NoHostAvailable is logged and the
\* caller gets the generic error, another error with a fixed message; any
\* other error is logged and that same error reaches the caller.  The error
\* is in the log when the caller gets it, and after a failure exec_query
\* returns no row list.
C3_FailureOutcomes ==
    /\ outcome.t = "exception" => pending # NoneV /\ log = <<pending>>
    /\ pending # NoneV /\ pc = "done" =>
          /\ log = <<pending>>
          /\ pending.kind = "NoHostAvailable" =>
                /\ outcome = GenericError
                /\ outcome.kind # pending.kind
                /\ outcome.message # pending.message
          /\ pending.kind # "NoHostAvailable" => outcome = pending
    /\ pending # NoneV => pc \in {"exit", "handler", "done"}

\* the second table query met NoHostAvailable: logged, generic error out
C3_Witness ==
    /\ pc = "done"
    /\ Len(clusters) = 3
    /\ pending.kind = "NoHostAvailable"
    /\ log = <<pending>>
    /\ outcome = GenericError

\* C4: no partial failure.  Once a query has failed no further statement is
\* issued, no further connection is made and the call ends with the error; a
\* document is returned only when no query failed, and then every keyspace in
\* it has a "tables" field.
C4_NoPartialDocument ==
    /\ [](/\ outcome.t = "dict" =>
               /\ pending = NoneV
               /\ \A i \in 1..Len(keyspaces) :
                     DictHas(keyspaces[i].entries, "tables")
               /\ outcome = DictV(<<<<"keyspaces", ListV(keyspaces)>>>>)
          /\ pending # NoneV /\ pc = "done" => outcome.t = "exception")
    /\ [][pending # NoneV =>
            /\ queries' = queries
            /\ Len(clusters') = Len(clusters)
            /\ keyspaces' = keyspaces]_vars

\* the call ended with an error while the first keyspace had its tables and
\* the second had none
C4_Witness ==
    /\ pc = "done"
    /\ outcome.t = "exception"
    /\ Len(keyspaces) = 2
    /\ DictHas(keyspaces[1].entries, "tables")
    /\ ~DictHas(keyspaces[2].entries, "tables")

(***************************************************************************)
(* ConnectionParams: the holder of host, port, credentials and TLS         *)
(* settings whose setters re-derive auth_provider and ssl_context.  The    *)
(* defaults are those of get_local_connection.                             *)
(***************************************************************************)
Credentials == {NoneV, Text("cassandra"), Text("admin")}

\* the plausible slip: a provider as soon as either credential is set
derive_auth_provider_either(u, p) ==
    IF u # NoneV \/ p # NoneV
    THEN [t |-> "PlainTextAuthProvider", username |-> u, password |-> p]
    ELSE NoneV

derive_auth_provider(u, p) ==
    IF u # NoneV /\ p # NoneV
    THEN [t |-> "PlainTextAuthProvider", username |-> u, password |-> p]
    ELSE NoneV

derive_ssl_context(required) ==
    IF required THEN [t |-> "SSLContext"] ELSE NoneV

InitParams ==
    /\ IdleParams /\ IdleRun /\ IdleFn

SetUsername ==
    /\ assigns < MaxAssign
    /\ \E v \in Credentials :
          /\ username' = v
          /\ auth_provider' = derive_auth_provider(v, password)
    /\ assigns' = assigns + 1
    /\ UNCHANGED <<password, is_ssl_required, ssl_context, host, port,
                   fnVars, runVars>>

SetPassword ==
    /\ assigns < MaxAssign
    /\ \E v \in Credentials :
          /\ password' = v
          /\ auth_provider' = derive_auth_provider(username, v)
    /\ assigns' = assigns + 1
    /\ UNCHANGED <<username, is_ssl_required, ssl_context, host, port,
                   fnVars, runVars>>

SetIsSslRequired ==
    /\ assigns < MaxAssign
    /\ \E b \in BOOLEAN :
          /\ is_ssl_required' = b
          /\ ssl_context' = derive_ssl_context(b)
    /\ assigns' = assigns + 1
    /\ UNCHANGED <<username, password, auth_provider, host, port,
                   fnVars, runVars>>

NextParams == SetUsername \/ SetPassword \/ SetIsSslRequired

SpecParams == InitParams /\ [][NextParams]_vars

\* C7: from a default-constructed instance (host ["localhost"], port 9042, no
\* auth provider, SSL not required, no TLS context) and after any assignments
\* to username, password and is_ssl_required, auth_provider is non-null
\* exactly when username and password both are, and ssl_context is non-null
\* exactly when is_ssl_required is true.
C7_DerivedFieldsConsistent ==
    /\ auth_provider # NoneV <=> (username # NoneV /\ password # NoneV)
    /\ ssl_context # NoneV <=> is_ssl_required
    /\ assigns = 0 =>
          /\ host = <<Text("localhost")>>
          /\ port = 9042
          /\ auth_provider = NoneV
          /\ ~is_ssl_required
          /\ ssl_context = NoneV

\* username, password and is_ssl_required were each assigned once: a provider
\* for that pair and a TLS context exist
C7_Witness ==
    /\ assigns = 3
    /\ username = Text("cassandra") /\ password = Text("admin")
    /\ auth_provider = [t |-> "PlainTextAuthProvider",
                        username |-> Text("cassandra"),
                        password |-> Text("admin")]
    /\ is_ssl_required /\ ssl_context # NoneV

=============================================================================
